---- MODULE Spec2Model ----
(***************************************************************************)
(* Vector-embedding search demo: db.py (the vector store), embedder.py     *)
(* (the text embedder) and main.py (the entry point).                      *)
(*                                                                         *)
(* Scope of the model.  The backend is reachable and supports the vector   *)
(* extension, and the embedding model can be loaded: get_db_connection     *)
(* returns a connection and statements fail only for reasons that the      *)
(* stored data and the arguments decide (missing table, NOT NULL, vector   *)
(* dimension, negative LIMIT).                                             *)
(*                                                                         *)
(* Representation.  A vector of n numbers is held sparsely as              *)
(* [n, lead = <<x, y>>, den]: its first two components are x/den and       *)
(* y/den and the other n - 2 are zero.  A text is the sequence of its      *)
(* whitespace-separated pieces; the piece WS is a run of whitespace.       *)
(***************************************************************************)
EXTENDS Integers, Sequences, FiniteSets

\* store:    the storage (extension, table, rows in heap order, id sequence)
\* conns:    connections open
\* now:      the backend's clock, which every INSERT moves on (to MaxClock)
\* embedder: the TextEmbedder and the weights of the model it loads
\* issued:   store operations of this run that may have drawn an id
\* last:     the last call: its arguments, the storage before it, its outcome
\* pc:       where the entry point is (mode "lib": the functions are called
\*           in any order by an importing program)
VARIABLES store, conns, now, embedder, issued, last, pc

vars == <<store, conns, now, embedder, issued, last, pc>>

\* ------------------------------------------------------------------ bounds

\* Rows the storage may hold when the process starts.
MaxSeed == 5
\* Values the id sequence may hand out in one run of the store's operations.
MaxIssued == 2
\* Connections the backend accepts at once.
MaxConns == 2
\* Ticks of the backend's clock that the model tells apart.
MaxClock == 1

\* ------------------------------------------------------- program constants

\* embedding vector(384)
VectorColumnDim == 384
\* def query_similar_vectors(query_embedding, top_k=5)
DefaultTopK == 5

NULL == "<NULL>"

\* ----------------------------------------------------------------- vectors

Vec(n, x, y) == [kind |-> "vec", n |-> n, lead |-> <<x, y>>, den |-> 1]

NullVec == [kind |-> "null"]

Min(a, b) == IF a <= b THEN a ELSE b

Sgn(x) == IF x > 0 THEN 1 ELSE IF x < 0 THEN -1 ELSE 0

\* The inner product and the squared norm, on the numerators: the cosine does
\* not change when a vector is scaled by 1/den > 0.
Dot(a, b) == a.lead[1] * b.lead[1] + a.lead[2] * b.lead[2]

Norm2(a) == Dot(a, a)

\* embedding <=> q, the cosine distance 1 - cos(e, q).  A number is held as
\* the signed square of the cosine, sgn(e.q) (e.q)^2 / (|e|^2 |q|^2), in three
\* parts: sim / (den * qden).  A zero vector gives NaN (0/0) and a NULL
\* embedding gives NULL.
CosineDistance(e, q) ==
    IF e.kind = "null" THEN [kind |-> "null"]
    ELSE IF Norm2(e) = 0 \/ Norm2(q) = 0 THEN [kind |-> "nan"]
    ELSE [kind |-> "num",
          sim |-> Sgn(Dot(e, q)) * Dot(e, q) * Dot(e, q),
          den |-> Norm2(e), qden |-> Norm2(q)]

\* ORDER BY ... (ascending): numbers first, NaN above every number, NULLS LAST.
DistRank(d) == IF d.kind = "num" THEN 0 ELSE IF d.kind = "nan" THEN 1 ELSE 2

\* d1 sorts strictly before d2, for two distances to the same query vector
\* (qden is the same and cancels): a smaller distance is a larger cosine.
DistLt(d1, d2) ==
    \/ DistRank(d1) < DistRank(d2)
    \/ /\ d1.kind = "num"
       /\ d2.kind = "num"
       /\ d1.sim * d2.den > d2.sim * d1.den

DistLeq(d1, d2) == ~DistLt(d2, d1)

\* ------------------------------------------------------------ SQL statements
\* Each statement acts on the transaction's working copy of the storage and
\* gives [err, store]; a failed statement leaves the rows as they were.

\* CREATE EXTENSION IF NOT EXISTS vector;
StmtCreateExtension(s) == [err |-> "", store |-> [s EXCEPT !.extension = TRUE]]

\* As StmtCreateTable, for DROP TABLE IF EXISTS before CREATE TABLE.
StmtCreateTableAnew(s) ==
    [err |-> "", store |-> [s EXCEPT !.table = TRUE, !.rows = <<>>, !.seq = 1]]

\* CREATE TABLE IF NOT EXISTS patient_data_vectors (id SERIAL PRIMARY KEY, ...);
StmtCreateTable(s) ==
    IF s.table THEN [err |-> "", store |-> s]
    ELSE [err |-> "", store |-> [s EXCEPT !.table = TRUE, !.rows = <<>>, !.seq = 1]]

\* As InsertError, for a column declared vector with no dimension.
InsertErrorAnyDim(s, a) ==
    IF ~s.table THEN "UndefinedTable"
    ELSE IF a.patient_id = NULL \/ a.data_type = NULL THEN "NotNullViolation"
    ELSE ""

\* The error of the INSERT, "" when there is none.
InsertError(s, a) ==
    IF ~s.table THEN "UndefinedTable"
    ELSE IF a.patient_id = NULL \/ a.data_type = NULL THEN "NotNullViolation"
    ELSE IF a.embedding.kind = "vec" /\ a.embedding.n # VectorColumnDim
         THEN "DataException"
    ELSE ""

NewRow(s, a, ts) ==
    [id |-> s.seq, patient_id |-> a.patient_id, data_type |-> a.data_type,
     content |-> a.content, embedding |-> a.embedding, timestamp |-> ts,
     doctor_id |-> a.doctor_id, visit_id |-> a.visit_id]

\* As NextVal, for an id that is no sequence's.
NextValStuck(n) == n

NextVal(n) == n + 1

\* INSERT INTO patient_data_vectors (patient_id, data_type, content, embedding,
\* doctor_id, visit_id) VALUES (...): id is nextval of the SERIAL sequence and
\* timestamp is now().  adv: whether a statement that fails on its row had
\* already drawn the id (the sequence is not transactional).
StmtInsert(s, a, ts, adv) ==
    LET e == InsertError(s, a) IN
    IF e = "" THEN
        [err |-> "",
         store |-> [s EXCEPT !.rows = Append(s.rows, NewRow(s, a, ts)),
                             !.seq = NextVal(s.seq)]]
    ELSE IF e # "UndefinedTable" /\ adv THEN
        [err |-> e, store |-> [s EXCEPT !.seq = NextVal(s.seq)]]
    ELSE [err |-> e, store |-> s]

\* As StmtDelete, for a DELETE whose WHERE keeps the rows with no embedding.
StmtDeleteEmbedded(s) ==
    IF ~s.table THEN [err |-> "UndefinedTable", store |-> s]
    ELSE [err |-> "",
          store |-> [s EXCEPT !.rows = SelectSeq(s.rows,
                                 LAMBDA r : r.embedding.kind = "null")]]

\* DELETE FROM patient_data_vectors;
StmtDelete(s) ==
    IF ~s.table THEN [err |-> "UndefinedTable", store |-> s]
    ELSE [err |-> "", store |-> [s EXCEPT !.rows = <<>>]]

\* conn.commit(): the working copy becomes the storage.
Commit(before, work) == work

\* conn.rollback(): the storage is as before, but for the sequence.
Rollback(before, work) == [before EXCEPT !.seq = work.seq]

\* The tuple fetchall() gives for a row.
ResultTuple(r, q) ==
    [patient_id |-> r.patient_id, data_type |-> r.data_type,
     content |-> r.content, distance |-> CosineDistance(r.embedding, q)]

\* The error of the SELECT, "" when there is none.
SelectError(s, q, k) ==
    IF ~s.table THEN "UndefinedTable"
    ELSE IF k < 0 THEN "InvalidRowCountInLimitClause"
    ELSE IF k > 0 /\ \E i \in 1..Len(s.rows) :
                        /\ s.rows[i].embedding.kind = "vec"
                        /\ s.rows[i].embedding.n # q.n
         THEN "DataException"
    ELSE ""

\* The SELECT list, computed for each row of the table in turn.
RECURSIVE Project(_, _)
Project(rows, q) ==
    IF rows = <<>> THEN <<>>
    ELSE <<ResultTuple(Head(rows), q)>> \o Project(Tail(rows), q)

\* As Minimal, for ORDER BY ... DESC.
Maximal(tuples, cands) ==
    {i \in cands : \A j \in cands :
        DistLeq(tuples[j].distance, tuples[i].distance)}

\* The rows of cands that may come next in ORDER BY embedding <=> q.
Minimal(tuples, cands) ==
    {i \in cands : \A j \in cands :
        DistLeq(tuples[i].distance, tuples[j].distance)}

\* One row for each distinct tuple among the rows of m.
Representatives(tuples, m) ==
    {i \in m : \A j \in m : tuples[j] = tuples[i] => i <= j}

\* ORDER BY embedding <=> q LIMIT k over the rows of cands: every sequence of
\* tuples the backend may give (the order of equal distances is its choice).
RECURSIVE OrderByLimit(_, _, _)
OrderByLimit(tuples, cands, k) ==
    IF k = 0 \/ cands = {} THEN {<<>>}
    ELSE UNION {
        {<<tuples[i]>> \o t : t \in OrderByLimit(tuples, cands \ {i}, k - 1)} :
        i \in Representatives(tuples, Minimal(tuples, cands))}

\* SELECT patient_id, data_type, content, embedding <=> q AS distance
\* FROM patient_data_vectors ORDER BY embedding <=> q LIMIT k;
\* [err, results]: results is the set of possible answers.
StmtSelect(s, q, k) ==
    LET e == SelectError(s, q, k) IN
    IF e # "" THEN [err |-> e, results |-> {<<>>}]
    ELSE [err |-> "",
          results |-> OrderByLimit(Project(s.rows, q), 1..Len(s.rows), k)]

\* ------------------------------------------------------ db.py: the handlers
\* Each gives [store, status, calls, ...]: the storage after the call, "ok" or
\* "raised", and the calls made on the connection.

create_patient_vectors_table(s) ==
    LET r1 == StmtCreateExtension(s)
        r2 == StmtCreateTable(r1.store)
    IN  IF r1.err = "" /\ r2.err = "" THEN
            [store |-> Commit(s, r2.store), status |-> "ok", error |-> "",
             calls |-> <<"connect", "execute", "execute", "commit", "close">>]
        ELSE
            [store |-> Rollback(s, r2.store), status |-> "raised",
             error |-> IF r1.err # "" THEN r1.err ELSE r2.err,
             calls |-> <<"connect", "execute", "rollback", "close">>]

insert_patient_vector(s, a, ts, adv) ==
    LET r == StmtInsert(s, a, ts, adv) IN
    IF r.err = "" THEN
        [store |-> Commit(s, r.store), status |-> "ok", error |-> "",
         calls |-> <<"connect", "execute", "commit", "close">>]
    ELSE
        [store |-> Rollback(s, r.store), status |-> "raised", error |-> r.err,
         calls |-> <<"connect", "execute", "rollback", "close">>]

\* As TopK, for top_k=10.
TopKTen(k) == IF k.given THEN k.value ELSE 10

\* top_k=5 when the caller gives none.
TopK(k) == IF k.given THEN k.value ELSE DefaultTopK

\* The set of possible outcomes.
query_similar_vectors(s, q, k) ==
    LET r == StmtSelect(s, q, TopK(k)) IN
    IF r.err = "" THEN
        {[store |-> s, status |-> "ok", error |-> "", result |-> t,
          calls |-> <<"connect", "execute", "fetchall", "close">>] :
            t \in r.results}
    ELSE
        {[store |-> s, status |-> "raised", error |-> r.err, result |-> <<>>,
          calls |-> <<"connect", "execute", "close">>]}

\* main.py: no try/finally; an error in execute leaves before conn.close().
clear_existing_data(s) ==
    LET r == StmtDelete(s) IN
    IF r.err = "" THEN
        [store |-> Commit(s, r.store), status |-> "ok", error |-> "",
         calls |-> <<"connect", "execute", "commit", "close">>]
    ELSE
        [store |-> s, status |-> "raised", error |-> r.err,
         calls |-> <<"connect", "execute">>]

\* Connections a call leaves open: those it opened less those it closed.
Count(calls, c) == Cardinality({i \in 1..Len(calls) : calls[i] = c})

LeftOpen(calls) == Count(calls, "connect") - Count(calls, "close")

\* ------------------------------------------------------------- embedder.py

\* max_length=512
MaxLength == 512
\* np.zeros(384)
ZeroVectorDim == 384

DefaultModel == "sentence-transformers/all-MiniLM-L6-v2"

OtherModel == "sentence-transformers/all-mpnet-base-v2"

\* The model's hidden size (AutoModel.from_pretrained(model_name)).
HiddenSize(model_name) == IF model_name = DefaultModel THEN 384 ELSE 768

WS == " "

\* not text or not text.strip()
IsBlank(text) == \A i \in 1..Len(text) : text[i] = WS

\* The words of a text, in order.
RECURSIVE Words(_)
Words(text) ==
    IF text = <<>> THEN <<>>
    ELSE IF Head(text) = WS THEN Words(Tail(text))
    ELSE <<Head(text)>> \o Words(Tail(text))

\* truncation=True, max_length=512: [CLS] words [SEP], cut to max_length
\* tokens with the [SEP] kept.
Tokenize(text) ==
    LET w == Words(text) IN
    IF Len(w) + 2 > MaxLength
    THEN <<"[CLS]">> \o SubSeq(w, 1, MaxLength - 2) \o <<"[SEP]">>
    ELSE <<"[CLS]">> \o w \o <<"[SEP]">>

RECURSIVE MaxLen(_)
MaxLen(seqs) ==
    IF seqs = <<>> THEN 0
    ELSE LET m == MaxLen(Tail(seqs)) IN
         IF Len(Head(seqs)) > m THEN Len(Head(seqs)) ELSE m

\* padding=True: every sequence of the batch is filled with [PAD] to the
\* length of the longest.
PadTo(tokens, n) == tokens \o [i \in 1..(n - Len(tokens)) |-> "[PAD]"]

TokenizeBatch(texts) ==
    LET toks == [b \in 1..Len(texts) |-> Tokenize(texts[b])]
    IN  [b \in 1..Len(texts) |-> PadTo(toks[b], MaxLen(toks))]

\* The model's output at one position (outputs.last_hidden_state[b][p]), as
\* the two leading components: a [PAD] position gives the weights' value for
\* it, any other position a value its token decides.
HiddenState(E, tok) ==
    IF tok = "[PAD]" THEN E.pad
    ELSE IF tok = "[CLS]" THEN <<0, 1>>
    ELSE IF tok = "[SEP]" THEN <<1, 1>>
    ELSE <<1 + (Len(tok) % 2), 1>>

RECURSIVE SumStates(_, _)
SumStates(E, ids) ==
    IF ids = <<>> THEN <<0, 0>>
    ELSE LET h == HiddenState(E, Head(ids))
             r == SumStates(E, Tail(ids))
         IN  <<h[1] + r[1], h[2] + r[2]>>

\* last_hidden_state.mean(dim=1): the mean over every position of the
\* sequence as it was given to the model.
MeanPool(E, ids) ==
    [kind |-> "vec", n |-> E.hidden, lead |-> SumStates(E, ids), den |-> Len(ids)]

Zeros(n) == [kind |-> "vec", n |-> n, lead |-> <<0, 0>>, den |-> 1]

\* TextEmbedder.__init__
TextEmbedder(E, model_name) ==
    [E EXCEPT !.loaded = TRUE, !.model_name = model_name,
              !.hidden = HiddenSize(model_name)]

\* TextEmbedder.embed: [vector, invoked]
embed(E, text) ==
    IF text = <<>> \/ IsBlank(text)
    THEN [vector |-> Zeros(ZeroVectorDim), invoked |-> FALSE]
    ELSE [vector |-> MeanPool(E, TokenizeBatch(<<text>>)[1]), invoked |-> TRUE]

\* text if text and text.strip() else " "
NonEmpty(text) == IF text # <<>> /\ ~IsBlank(text) THEN text ELSE <<WS>>

\* TextEmbedder.embed_batch
embed_batch(E, texts) ==
    IF texts = <<>> THEN <<>>
    ELSE LET ids == TokenizeBatch([b \in 1..Len(texts) |-> NonEmpty(texts[b])])
         IN  [b \in 1..Len(texts) |-> MeanPool(E, ids[b])]

\* Two vectors are equal: the same length and the same components.
VecEq(a, b) ==
    /\ a.n = b.n
    /\ a.lead[1] * b.den = b.lead[1] * a.den
    /\ a.lead[2] * b.den = b.lead[2] * a.den

\* ------------------------------------------------------------------ inputs

Record(p, t, c, e, d, v) ==
    [patient_id |-> p, data_type |-> t, content |-> c, embedding |-> e,
     doctor_id |-> d, visit_id |-> v]

\* Arguments of insert_patient_vector that the table accepts: two directions,
\* the zero vector embed() gives for an empty text, and no embedding (None).
ValidArgs ==
    {Record("patient_001", "chat", <<"headache">>, Vec(VectorColumnDim, 1, 0), NULL, NULL),
     Record("patient_002", "report", <<"MRI", "scan">>, Vec(VectorColumnDim, 0, 1),
            "Dr. Smith", "visit_001"),
     Record("patient_001", "chat", <<>>, Zeros(ZeroVectorDim), NULL, NULL),
     Record("patient_002", "chat", <<"pain">>, NullVec, NULL, NULL)}

\* Arguments the table refuses: a vector one short, a vector of another
\* model's size, no patient_id, no data_type.
InvalidArgs ==
    {Record("patient_001", "chat", <<"headache">>, Vec(VectorColumnDim - 1, 1, 0), NULL, NULL),
     Record("patient_001", "chat", <<"headache">>, Vec(HiddenSize(OtherModel), 1, 0),
            NULL, NULL),
     Record(NULL, "chat", <<"headache">>, Vec(VectorColumnDim, 1, 0), NULL, NULL),
     Record("patient_001", NULL, <<"headache">>, Vec(VectorColumnDim, 1, 0), NULL, NULL)}

InsertArgs == ValidArgs \cup InvalidArgs

\* Query vectors: along the first stored direction, between the two (equal
\* distances), against the first, and one of the wrong length.
QueryVectors ==
    {Vec(VectorColumnDim, 1, 0), Vec(VectorColumnDim, 1, 1),
     Vec(VectorColumnDim, -1, 0), Vec(VectorColumnDim - 1, 1, 0)}

Given(k) == [given |-> TRUE, value |-> k]

Absent == [given |-> FALSE, value |-> 0]

QueryKs == {Absent} \cup {Given(k) : k \in {-1, 0, 2, MaxSeed + MaxIssued + 1}}

\* The rows an earlier run left: the same insert, repeated.
SeedArgs(i) ==
    Record("patient_001", "chat", <<"headache">>, Vec(VectorColumnDim, 1, 0), NULL, NULL)

RECURSIVE Seeded(_)
Seeded(n) ==
    IF n = 0
    THEN StmtCreateTable(StmtCreateExtension(
             [extension |-> FALSE, table |-> FALSE, rows |-> <<>>, seq |-> 1]).store).store
    ELSE StmtInsert(Seeded(n - 1), SeedArgs(n), 0, FALSE).store

\* The storage when the process starts: new, with the extension only, with
\* the empty table, or with the table and the rows of earlier runs.
InitStores ==
    {[extension |-> x, table |-> FALSE, rows |-> <<>>, seq |-> 1] : x \in BOOLEAN}
    \cup {Seeded(0), Seeded(MaxSeed)}

\* What the model gives at a [PAD] position.
PadOutputs == {<<0, 0>>, <<3, 1>>}

NoCall == [op |-> "none"]

Lib == [mode |-> "lib", step |-> 0]

\* ------------------------------------------------- the store's operations

StoreCall(op, args, o) ==
    [op |-> op, args |-> args, pre |-> store, status |-> o.status,
     error |-> o.error, calls |-> o.calls,
     result |-> IF op = "query" THEN o.result ELSE <<>>]

Create ==
    /\ pc.mode = "lib"
    /\ conns < MaxConns
    /\ LET o == create_patient_vectors_table(store) IN
        /\ store' = o.store
        /\ conns' = conns + LeftOpen(o.calls)
        /\ last' = StoreCall("create", <<>>, o)
    /\ UNCHANGED <<now, embedder, issued, pc>>

Insert ==
    /\ pc.mode = "lib"
    /\ conns < MaxConns
    /\ issued < MaxIssued
    /\ \E a \in InsertArgs, adv \in BOOLEAN :
        LET o == insert_patient_vector(store, a, now, adv) IN
        /\ store' = o.store
        /\ conns' = conns + LeftOpen(o.calls)
        /\ now' = Min(now + 1, MaxClock)
        /\ last' = StoreCall("insert", a, o)
    /\ issued' = issued + 1
    /\ UNCHANGED <<embedder, pc>>

Query ==
    /\ pc.mode = "lib"
    /\ conns < MaxConns
    /\ \E q \in QueryVectors, k \in QueryKs :
        \E o \in query_similar_vectors(store, q, k) :
            /\ store' = o.store
            /\ conns' = conns + LeftOpen(o.calls)
            /\ last' = StoreCall("query", [query_embedding |-> q, top_k |-> k], o)
    /\ UNCHANGED <<now, embedder, issued, pc>>

Clear ==
    /\ pc.mode = "lib"
    /\ conns < MaxConns
    /\ LET o == clear_existing_data(store) IN
        /\ store' = o.store
        /\ conns' = conns + LeftOpen(o.calls)
        /\ last' = StoreCall("clear", <<>>, o)
    /\ UNCHANGED <<now, embedder, issued, pc>>

Init ==
    /\ store \in InitStores
    /\ conns = 0
    /\ now = 0
    /\ embedder = [loaded |-> FALSE, model_name |-> NULL, hidden |-> 0, pad |-> <<0, 0>>]
    /\ issued = 0
    /\ last = NoCall
    /\ pc = Lib

Next == Create \/ Insert \/ Query \/ Clear

Spec == Init /\ [][Next]_vars

\* ---------------------------------------------- the embedder's operations

\* Longest text, in pieces, and largest batch given to the embedder.
MaxTextLen == 2
MaxBatch == 2

Pieces == {"a", "bb", WS}

SeqsUpTo(S, n) == UNION {[1..m -> S] : m \in 0..n}

Texts == SeqsUpTo(Pieces, MaxTextLen)

Batches == SeqsUpTo(Texts, MaxBatch)

ModelNames == {DefaultModel, OtherModel}

Construct ==
    /\ pc.mode = "lib"
    /\ \E m \in ModelNames :
        /\ embedder' = TextEmbedder(embedder, m)
        /\ last' = [op |-> "init", args |-> m]
    /\ UNCHANGED <<store, conns, now, issued, pc>>

Embed ==
    /\ pc.mode = "lib"
    /\ embedder.loaded
    /\ \E t \in Texts :
        LET o == embed(embedder, t) IN
        last' = [op |-> "embed", args |-> t, result |-> o.vector,
                 invoked |-> o.invoked]
    /\ UNCHANGED <<store, conns, now, embedder, issued, pc>>

EmbedBatch ==
    /\ pc.mode = "lib"
    /\ embedder.loaded
    /\ \E ts \in Batches :
        last' = [op |-> "embed_batch", args |-> ts,
                 result |-> embed_batch(embedder, ts)]
    /\ UNCHANGED <<store, conns, now, embedder, issued, pc>>

InitEmbed ==
    /\ store = [extension |-> FALSE, table |-> FALSE, rows |-> <<>>, seq |-> 1]
    /\ conns = 0
    /\ now = 0
    /\ \E p \in PadOutputs :
        embedder = [loaded |-> FALSE, model_name |-> NULL, hidden |-> 0, pad |-> p]
    /\ issued = 0
    /\ last = NoCall
    /\ pc = Lib

NextEmbed == Construct \/ Embed \/ EmbedBatch

SpecEmbed == InitEmbed /\ [][NextEmbed]_vars

\* ------------------------------------------------ main.py: the entry point

patient_records ==
    <<[patient_id |-> "patient_001", data_type |-> "chat",
       content |-> <<"Patient", "reports", "mild", "headache", "and", "fatigue.">>,
       doctor_id |-> NULL, visit_id |-> NULL],
      [patient_id |-> "patient_001", data_type |-> "report",
       content |-> <<"MRI", "scan", "shows", "no", "abnormality.">>,
       doctor_id |-> NULL, visit_id |-> NULL],
      [patient_id |-> "patient_002", data_type |-> "chat",
       content |-> <<"Patient", "complains", "of", "chronic", "back", "pain.">>,
       doctor_id |-> NULL, visit_id |-> NULL]>>

medications ==
    <<[patient_id |-> "med_001", data_type |-> "medication",
       content |-> <<"Patient", "taking", "warfarin", "5mg", "daily", "for", "blood", "clot", "prevention">>,
       doctor_id |-> "Dr. Smith", visit_id |-> "visit_001"],
      [patient_id |-> "med_002", data_type |-> "medication",
       content |-> <<"Aspirin", "81mg", "prescribed", "for", "heart", "protection", "and", "stroke", "prevention">>,
       doctor_id |-> "Dr. Jones", visit_id |-> "visit_002"],
      [patient_id |-> "med_003", data_type |-> "medication",
       content |-> <<"Ibuprofen", "400mg", "for", "joint", "inflammation", "and", "pain", "relief">>,
       doctor_id |-> "Dr. Brown", visit_id |-> "visit_003"],
      [patient_id |-> "med_004", data_type |-> "medication",
       content |-> <<"Metformin", "1000mg", "twice", "daily", "for", "diabetes", "management">>,
       doctor_id |-> "Dr. Wilson", visit_id |-> "visit_004"],
      [patient_id |-> "med_005", data_type |-> "medication",
       content |-> <<"Lisinopril", "10mg", "for", "high", "blood", "pressure", "control">>,
       doctor_id |-> "Dr. Davis", visit_id |-> "visit_005"],
      [patient_id |-> "med_006", data_type |-> "medication",
       content |-> <<"Clopidogrel", "75mg", "for", "antiplatelet", "therapy", "after", "stent", "placement">>,
       doctor_id |-> "Dr. Smith", visit_id |-> "visit_006"]>>

patient_timeline ==
    <<[patient_id |-> "patient_007", data_type |-> "consultation",
       content |-> <<"2024-01-15:", "Initial", "consultation", "for", "chest", "pain", "and", "shortness", "of", "breath">>,
       doctor_id |-> "Dr. Garcia", visit_id |-> "visit_007_1"],
      [patient_id |-> "patient_007", data_type |-> "test_result",
       content |-> <<"2024-01-20:", "EKG", "results", "show", "irregular", "heart", "rhythm,", "possible", "atrial", "fibrillation">>,
       doctor_id |-> "Dr. Garcia", visit_id |-> "visit_007_2"],
      [patient_id |-> "patient_007", data_type |-> "follow_up",
       content |-> <<"2024-02-01:", "Follow-up", "visit,", "patient", "reports", "symptoms", "improving", "with", "medication">>,
       doctor_id |-> "Dr. Garcia", visit_id |-> "visit_007_3"],
      [patient_id |-> "patient_007", data_type |-> "recovery",
       content |-> <<"2024-02-15:", "Patient", "reports", "complete", "recovery,", "heart", "rhythm", "normalized">>,
       doctor_id |-> "Dr. Garcia", visit_id |-> "visit_007_4"],
      [patient_id |-> "patient_008", data_type |-> "consultation",
       content |-> <<"2024-01-10:", "Patient", "presents", "with", "severe", "migraine", "headaches">>,
       doctor_id |-> "Dr. Lee", visit_id |-> "visit_008_1"],
      [patient_id |-> "patient_008", data_type |-> "treatment",
       content |-> <<"2024-01-25:", "Started", "preventive", "migraine", "medication,", "tracking", "symptoms">>,
       doctor_id |-> "Dr. Lee", visit_id |-> "visit_008_2"],
      [patient_id |-> "patient_008", data_type |-> "follow_up",
       content |-> <<"2024-02-10:", "Significant", "reduction", "in", "migraine", "frequency", "and", "intensity">>,
       doctor_id |-> "Dr. Lee", visit_id |-> "visit_008_3"]>>

InsertSteps(records) ==
    [i \in 1..Len(records) |-> [do |-> "insert", record |-> records[i]]]

QueryStep(text, k) == [do |-> "query", text |-> text, top_k |-> k]

\* main()
MainSteps ==
    <<[do |-> "create"], [do |-> "embedder"]>>
    \o InsertSteps(patient_records)
    \o <<QueryStep(<<"Patient", "has", "headache", "and", "feels", "tired.">>, Absent)>>

\* drug_interaction_example()
DrugSteps ==
    <<[do |-> "create"], [do |-> "embedder"]>>
    \o InsertSteps(medications)
    \o <<QueryStep(<<"blood", "thinning", "medication", "anticoagulant">>, Given(3))>>

\* temporal_patient_tracking_example()
TemporalSteps ==
    <<[do |-> "embedder"]>>
    \o InsertSteps(patient_timeline)
    \o <<QueryStep(<<"patient", "recovery", "symptoms", "improving", "getting",
                     "better">>, Given(4)),
         QueryStep(<<"heart", "problems", "cardiac", "chest", "pain", "rhythm">>,
                   Given(4))>>

\* if __name__ == "__main__":
Program == <<[do |-> "clear"]>> \o MainSteps \o DrugSteps \o TemporalSteps

\* After a step: an exception nobody catches ends the process.
Advance(p, status) ==
    IF status = "raised" THEN [p EXCEPT !.mode = "crashed"]
    ELSE IF p.step = Len(Program) THEN [p EXCEPT !.mode = "done"]
    ELSE [p EXCEPT !.step = p.step + 1]

At(do) == pc.mode = "cli" /\ Program[pc.step].do = do

CliClear ==
    /\ At("clear")
    /\ LET o == clear_existing_data(store) IN
        /\ store' = o.store
        /\ conns' = conns + LeftOpen(o.calls)
        /\ last' = StoreCall("clear", <<>>, o)
        /\ pc' = Advance(pc, o.status)
    /\ UNCHANGED <<now, embedder, issued>>

CliCreate ==
    /\ At("create")
    /\ LET o == create_patient_vectors_table(store) IN
        /\ store' = o.store
        /\ conns' = conns + LeftOpen(o.calls)
        /\ last' = StoreCall("create", <<>>, o)
        /\ pc' = Advance(pc, o.status)
    /\ UNCHANGED <<now, embedder, issued>>

CliEmbedder ==
    /\ At("embedder")
    /\ embedder' = TextEmbedder(embedder, DefaultModel)
    /\ last' = [op |-> "init", args |-> DefaultModel]
    /\ pc' = Advance(pc, "ok")
    /\ UNCHANGED <<store, conns, now, issued>>

\* embedding = embedder.embed(content); insert_patient_vector(...)
CliInsert ==
    /\ At("insert")
    /\ \E adv \in BOOLEAN :
        LET r == Program[pc.step].record
            a == Record(r.patient_id, r.data_type, r.content,
                        embed(embedder, r.content).vector, r.doctor_id, r.visit_id)
            o == insert_patient_vector(store, a, now, adv)
        IN  /\ store' = o.store
            /\ conns' = conns + LeftOpen(o.calls)
            /\ now' = Min(now + 1, MaxClock)
            /\ last' = StoreCall("insert", a, o)
            /\ pc' = Advance(pc, o.status)
    /\ UNCHANGED <<embedder, issued>>

\* query_embedding = embedder.embed(query_text); query_similar_vectors(...)
CliQuery ==
    /\ At("query")
    /\ LET q == embed(embedder, Program[pc.step].text).vector
           k == Program[pc.step].top_k
       IN  \E o \in query_similar_vectors(store, q, k) :
            /\ store' = o.store
            /\ conns' = conns + LeftOpen(o.calls)
            /\ last' = StoreCall("query", [query_embedding |-> q, top_k |-> k], o)
            /\ pc' = Advance(pc, o.status)
    /\ UNCHANGED <<now, embedder, issued>>

InitCLI ==
    /\ store \in InitStores
    /\ conns = 0
    /\ now = 0
    /\ \E p \in PadOutputs :
        embedder = [loaded |-> FALSE, model_name |-> NULL, hidden |-> 0, pad |-> p]
    /\ issued = 0
    /\ last = NoCall
    /\ pc = [mode |-> "cli", step |-> 1]

NextCLI == CliClear \/ CliCreate \/ CliEmbedder \/ CliInsert \/ CliQuery

SpecCLI == InitCLI /\ [][NextCLI]_vars

\* ------------------------------------------------------------- properties

\* The last call was query_similar_vectors on an existing table with a query
\* vector of the column's dimension.
Queried ==
    /\ last.op = "query"
    /\ last.pre.table
    /\ last.args.query_embedding.n = VectorColumnDim

\* res holds at most as many copies of a tuple as rows gives for q.
FromRows(res, rows, q) ==
    \A i \in 1..Len(res) :
        Cardinality({j \in 1..Len(res) : res[j] = res[i]})
            <= Cardinality({j \in 1..Len(rows) : ResultTuple(rows[j], q) = res[i]})

\* res is in non-decreasing order of distance.
Ascending(res) ==
    \A i, j \in 1..Len(res) : i < j => ~DistLt(res[j].distance, res[i].distance)

\* No row is strictly nearer than the place its distance would have in res.
Nearest(res, rows, q) ==
    \A i \in 1..Len(res) :
        Cardinality({j \in 1..Len(rows) :
            DistLt(CosineDistance(rows[j].embedding, q), res[i].distance)}) <= i - 1

\* C1: query_similar_vectors(v, k) with a positive k on a table of N records
\* returns exactly min(k, N) tuples of stored records, in non-decreasing order
\* of cosine distance to v (the order of the backend: NaN after every number,
\* NULL last), and no stored record outside the result is strictly nearer than
\* one inside it.
C1_NearestInOrder ==
    (Queried /\ last.args.top_k.given /\ last.args.top_k.value > 0) =>
        LET rows == last.pre.rows
            q == last.args.query_embedding
        IN  /\ last.status = "ok"
            /\ Len(last.result) = Min(last.args.top_k.value, Len(rows))
            /\ FromRows(last.result, rows, q)
            /\ Ascending(last.result)
            /\ Nearest(last.result, rows, q)

\* A query with k above the row count gave every row, and the nearest one is
\* not the row stored first.
C1_Witness ==
    /\ Queried
    /\ last.args.top_k.given
    /\ last.args.top_k.value > Len(last.pre.rows)
    /\ Len(last.result) = Len(last.pre.rows)
    /\ Len(last.result) >= 6
    /\ last.result[1] # ResultTuple(last.pre.rows[1], last.args.query_embedding)
    /\ DistLt(last.result[1].distance, last.result[2].distance)

\* The arguments of the last insert_patient_vector are ones the table must
\* refuse: a vector whose length is not 384, or no patient_id or data_type.
Refused ==
    /\ last.op = "insert"
    /\ \/ ~last.pre.table
       \/ last.args.patient_id = NULL
       \/ last.args.data_type = NULL
       \/ last.args.embedding.kind = "vec" /\ last.args.embedding.n # VectorColumnDim

\* C2: an insert_patient_vector that fails is rolled back and raises, and the
\* stored records are those before the call.
C2_FailedInsertLeavesTable ==
    (Refused \/ (last.op = "insert" /\ last.status = "raised")) =>
        /\ last.status = "raised"
        /\ last.error # ""
        /\ \E i \in 1..Len(last.calls) : last.calls[i] = "rollback"
        /\ \A i \in 1..Len(last.calls) : last.calls[i] # "commit"
        /\ store.rows = last.pre.rows
        /\ store.table = last.pre.table
        /\ store.extension = last.pre.extension

\* An insert of a vector of the wrong length into a table that holds rows failed.
C2_Witness ==
    /\ last.op = "insert"
    /\ last.error = "DataException"
    /\ last.args.embedding.n # VectorColumnDim
    /\ Len(last.pre.rows) > 0

\* C3 as stated: with k absent or not positive the query behaves as with
\* k = 5 and returns min(5, N) tuples.
C3_NonPositiveDefaults ==
    (Queried /\ (~last.args.top_k.given \/ last.args.top_k.value <= 0)) =>
        /\ last.status = "ok"
        /\ Len(last.result) = Min(DefaultTopK, Len(last.pre.rows))

\* C3 amended: with k absent the query returns the min(5, N) nearest tuples;
\* with k = 0 it returns none; with a negative k it raises and returns nothing.
C3_AbsentDefaults ==
    Queried =>
        LET rows == last.pre.rows
            q == last.args.query_embedding
            k == last.args.top_k
        IN  /\ ~k.given =>
                /\ last.status = "ok"
                /\ Len(last.result) = Min(DefaultTopK, Len(rows))
                /\ FromRows(last.result, rows, q)
                /\ Ascending(last.result)
                /\ Nearest(last.result, rows, q)
            /\ (k.given /\ k.value = 0) =>
                (last.status = "ok" /\ last.result = <<>>)
            /\ (k.given /\ k.value < 0) =>
                (last.status = "raised" /\ last.result = <<>> /\ store = last.pre)

\* A query with k absent on a table of more than five rows gave five.
C3_Witness ==
    /\ Queried
    /\ ~last.args.top_k.given
    /\ Len(last.pre.rows) > DefaultTopK
    /\ Len(last.result) = DefaultTopK
    /\ last.result[1] # ResultTuple(last.pre.rows[1], last.args.query_embedding)

\* C4: after clear_existing_data on an existing table no record is left, and
\* a query for five neighbours of any vector, issued next, returns nothing.
C4_ClearThenQueryEmpty ==
    (last.op = "clear" /\ last.pre.table) =>
        /\ last.status = "ok"
        /\ store.rows = <<>>
        /\ store.table
        /\ \A q \in QueryVectors :
            \A o \in query_similar_vectors(store, q, Given(5)) :
                o.status = "ok" /\ o.result = <<>>

\* clear_existing_data ran on a table that held rows, one with no embedding.
C4_Witness ==
    /\ last.op = "clear"
    /\ last.status = "ok"
    /\ \E i \in 1..Len(last.pre.rows) : last.pre.rows[i].embedding.kind = "null"

\* C5: a successful insert_patient_vector appends one record, holding the
\* arguments and an id no record stored before has, and leaves the records
\* stored before as they were; the ids in the table are pairwise different.
C5_InsertAppendsFreshId ==
    /\ \A i, j \in 1..Len(store.rows) :
        i # j => store.rows[i].id # store.rows[j].id
    /\ (last.op = "insert" /\ last.status = "ok") =>
        LET n == Len(last.pre.rows) IN
        /\ Len(store.rows) = n + 1
        /\ SubSeq(store.rows, 1, n) = last.pre.rows
        /\ \A i \in 1..n : store.rows[n + 1].id # last.pre.rows[i].id
        /\ store.rows[n + 1].patient_id = last.args.patient_id
        /\ store.rows[n + 1].data_type = last.args.data_type
        /\ store.rows[n + 1].content = last.args.content
        /\ store.rows[n + 1].embedding = last.args.embedding
        /\ store.rows[n + 1].doctor_id = last.args.doctor_id
        /\ store.rows[n + 1].visit_id = last.args.visit_id

\* The second of two successful inserts with the same arguments: the table
\* holds two records of the same content.
C5_Witness ==
    /\ last.op = "insert"
    /\ last.status = "ok"
    /\ issued = 2
    /\ Len(last.pre.rows) > 0
    /\ LET n == Len(last.pre.rows) IN
        /\ last.pre.rows[n].patient_id = last.args.patient_id
        /\ last.pre.rows[n].content = last.args.content
        /\ last.pre.rows[n].embedding = last.args.embedding
        /\ last.pre.rows[n].id # store.rows[n + 1].id

\* C6: create_patient_vectors_table on a storage that has the table succeeds
\* and leaves the schema, the records and the id sequence as they were.
C6_CreateIdempotent ==
    (last.op = "create" /\ last.pre.table) =>
        /\ last.status = "ok"
        /\ store = last.pre

\* create_patient_vectors_table ran again after inserts of this run, on a
\* table that held rows.
C6_Witness ==
    /\ last.op = "create"
    /\ last.pre.table
    /\ issued > 0
    /\ Len(last.pre.rows) > MaxSeed

\* C7: after any sequence of the store's operations no connection is open.
C7_NoOpenConnection == conns = 0

\* C8: embed_batch gives as many vectors as texts, and for texts that are not
\* blank the i-th is embed of the i-th text.
C8_BatchIsEmbedOfEach ==
    last.op = "embed_batch" =>
        /\ Len(last.result) = Len(last.args)
        /\ (\A i \in 1..Len(last.args) : ~IsBlank(last.args[i])) =>
            \A i \in 1..Len(last.args) :
                VecEq(last.result[i], embed(embedder, last.args[i]).vector)

\* C9: embed gives a vector of the model's output dimensionality; for a blank
\* text it is all zeros and the model is not invoked.
C9_EmbedHasModelDim ==
    last.op = "embed" =>
        /\ last.result.n = HiddenSize(embedder.model_name)
        /\ IsBlank(last.args) =>
            (last.result.lead = <<0, 0>> /\ ~last.invoked)

\* C10: the entry point issues no DELETE, INSERT or SELECT on the record
\* table before the table exists, does not end on an exception, and comes to
\* its first query with exactly the three patient records in the table.
C10_TableBeforeStatements ==
    /\ last.op \in {"clear", "insert", "query"} => last.pre.table
    /\ pc.mode # "crashed"
    /\ (last.op = "query" /\ pc.step = Len(MainSteps) + 2) =>
        Len(last.pre.rows) = Len(patient_records)

====
